---- MODULE Spec2Model ----
(***************************************************************************)
(* A model of the tutorial application's database layer:                   *)
(*   - the SQLite store behind SQLAlchemy sessions (models.py),            *)
(*   - the db_operation wrapper (connection.py),                           *)
(*   - the seeder (seed.py),                                               *)
(*   - the create_user / create_post / search_posts tools (mcp_server.py). *)
(* A call of a wrapped function is a little process: its program counter  *)
(* walks through the wrapper's try / except / finally, and the wrapped     *)
(* function's body is interleaved with the other callers at every point    *)
(* where it talks to the store (query, flush, commit, rollback).           *)
(***************************************************************************)
EXTENDS Integers, Sequences, FiniteSets, TLC

\* ------------------------------------------------------------------ bounds

\* Calls made in one run, over all callers.
MaxCalls == 2
\* Users the seeder creates (seed.py uses range(10); scaled down).
SeedUsers == 2
\* Upper end of the seeder's random.randint(1, n) posts per user (seed.py
\* uses 5; scaled down).
MaxSeedPosts == 2

\* Concurrent callers of wrapped functions.
Procs == {1, 2}

\* ------------------------------------------------------------- value pools

\* Faker's pools of user names and e-mail addresses, also the tool arguments.
Names == {"ann", "bob"}
Emails == {"a@x", "b@x"}

\* Texts are sequences of characters.  "_" is an ordinary character of a
\* title, a content or a query.
Titles == {<<"a", "b">>, <<"A">>}
Contents == {<<"c">>}
Queries == {<<"A", "B">>, <<"c">>, <<"b", "a">>, <<"_">>}
\* What Faker's sentence() and paragraph() yield for seeded posts.
FakeTitle == <<"a", "b">>
FakeContent == <<"c">>

\* user_id arguments of create_post.
UserIdArgs == {1, 2}

\* ------------------------------------------------------------ Python values

\* The members of a JSON object other than its "success"/"error" key.
NoPayload ==
  [kind |-> "none", id |-> 0, key |-> "", msg |-> "", data |-> <<>>,
   author |-> 0, count |-> 0, hits |-> {}]

\* A Python value a wrapped function returns or a call returns:
\*   t       its type: "None", "bool", "object" (not JSON serializable), "str"
\*   s       a str's characters; a bool's repr
\*   payload for a str made by json.dumps of a dict: that dict's content
PyNone == [t |-> "None", s |-> <<>>, payload |-> NoPayload]
PyBool(b) ==
  [t |-> "bool", s |-> IF b THEN <<"True">> ELSE <<"False">>,
   payload |-> NoPayload]
PyObject == [t |-> "object", s |-> <<>>, payload |-> NoPayload]
PyStr(chars) == [t |-> "str", s |-> chars, payload |-> NoPayload]

\* json.dumps of a dict whose first key is "success" ("s") or "error" ("e"):
\* the text opens with "{", names the key, and carries the other members.
DumpsSuccess(payload) ==
  [t |-> "str", s |-> <<"{", "s", "}">>, payload |-> payload]
DumpsError(msg) ==
  [t |-> "str", s |-> <<"{", "e", "}">>,
   payload |-> [NoPayload EXCEPT !.kind = "error", !.msg = msg]]

\* str.strip(): leading and trailing blanks removed.
RECURSIVE LStrip(_)
LStrip(chars) ==
  IF chars # <<>> /\ Head(chars) = " " THEN LStrip(Tail(chars)) ELSE chars
RECURSIVE RStrip(_)
RStrip(chars) ==
  IF chars # <<>> /\ chars[Len(chars)] = " "
  THEN RStrip(SubSeq(chars, 1, Len(chars) - 1))
  ELSE chars
Strip(chars) == RStrip(LStrip(chars))

\* str.startswith(c) for a one-character prefix.
StartsWith(chars, c) == chars # <<>> /\ Head(chars) = c

\* A variant that recognises only '{'.
LooksLikeJsonObject(v) == v.t = "str" /\ StartsWith(Strip(v.s), "{")

\* connection.py line 60: isinstance(result, str) and its stripped text
\* starts with '{' or '['.
LooksLikeJson(v) ==
  /\ v.t = "str"
  /\ (StartsWith(Strip(v.s), "{") \/ StartsWith(Strip(v.s), "["))

\* json.dumps(result) for the "data" member; raises TypeError for an object
\* that is not JSON serializable.
JsonSerializable(v) == v.t # "object"
JsonOf(v) ==
  CASE v.t = "bool" -> IF v.s = <<"True">> THEN <<"true">> ELSE <<"false">>
    [] v.t = "str" -> <<"\"">> \o v.s \o <<"\"">>
    [] OTHER -> <<"null">>

\* ------------------------------------------------------------------ state

VARIABLES
  users,      \* committed rows of table "users": [id, username, email]
  posts,      \* committed rows of table "posts": [id, title, content, user_id]
  writer,     \* the session whose transaction holds SQLite's write lock
  sess,       \* the Session objects: the one each call's wrapper opens, and
              \* the session a caller owns and may pass in
  pc,         \* where each call is in the wrapper and the wrapped function
  call,       \* the wrapped function called, its arguments, how the session
              \* was supplied
  local,      \* the wrapper's locals: session, kwargs['session'], result, e
  ret,        \* the value the call returns
  mine,       \* the rows the wrapped function of the current call flushed
  ncalls,     \* calls made so far
  seenIds,    \* ids returned in success envelopes of create_user / create_post
  seedCounts  \* the user counts a caller of seed_database() noted

vars ==
  <<users, posts, writer, sess, pc, call, local, ret, mine, ncalls, seenIds,
    seedCounts>>

\* session = None (connection.py line 45); no session holds the write lock.
NoSess == -1
\* The session object a caller created itself and passes as session=...
CallerSess == 0
SessIds == Procs \cup {CallerSess}

NoRows == [users |-> {}, posts |-> {}]

\* A Session that does not exist yet, and SessionLocal(): a fresh Session.
NoSession ==
  [state |-> "none", inTx |-> FALSE, fUsers |-> {}, fPosts |-> {},
   new |-> <<>>]
SessionLocal == [NoSession EXCEPT !.state = "open"]

NoCall ==
  [fn |-> "none", mode |-> "absent", username |-> "", email |-> "",
   title |-> <<>>, content |-> <<>>, user_id |-> 0, query |-> <<>>,
   writes |-> FALSE, raises |-> FALSE, value |-> PyNone]
NoLocal ==
  [session |-> NoSess, ksess |-> NoSess, result |-> PyNone, exc |-> "",
   at |-> ""]

\* ------------------------------------------------------------- the store

Max(S) == CHOOSE m \in S : \A x \in S : x <= m
\* A variant that forgets the + 1 once the table has rows.
NextIdStale(rows) == IF rows = {} THEN 1 ELSE Max({r.id : r \in rows})

\* SQLite's INTEGER PRIMARY KEY without AUTOINCREMENT: one more than the
\* largest id the inserting transaction sees in the table.
NextId(rows) == IF rows = {} THEN 1 ELSE Max({r.id : r \in rows}) + 1

\* What a query of session k sees: the committed rows and the rows its own
\* transaction has flushed.
VisibleUsers(k) == users \cup sess[k].fUsers
VisiblePosts(k) == posts \cup sess[k].fPosts

\* Another connection holds the write lock: an INSERT ends in
\* "database is locked" once the busy timeout has passed.
LockedOut(k) == writer # NoSess /\ writer # k

\* A variant for a schema without the unique constraints.
NoUniqueConstraint(row, rows) == FALSE

\* models.py lines 12-13: unique=True on username and on email.
ViolatesUnique(row, rows) ==
  \E u \in rows : u.username = row.username \/ u.email = row.email

\* session.add(obj) puts an object in session.new; session.flush() INSERTs
\* the objects of session.new in order, each taking the next id.
RECURSIVE FlushedPosts(_, _)
FlushedPosts(new, rows) ==
  IF new = <<>> THEN rows
  ELSE FlushedPosts(Tail(new),
         rows \cup {[id |-> NextId(rows), title |-> Head(new).title,
                     content |-> Head(new).content,
                     user_id |-> Head(new).user_id]})

\* session.commit() / rollback() / close(): the Session afterwards.
Ended(s) == [s EXCEPT !.inTx = FALSE, !.fUsers = {}, !.fPosts = {}, !.new = <<>>]
\* A variant in which close() is never reached.
LeftOpen(s) == s

Closed(s) == [Ended(s) EXCEPT !.state = "closed"]

\* ---------------------------------------------------- SQL LIKE / ilike()

\* SQLite's lower(): folds the ASCII letters.
Lower(c) ==
  CASE c = "A" -> "a" [] c = "B" -> "b" [] c = "C" -> "c" [] OTHER -> c
LowerAll(chars) == [i \in 1..Len(chars) |-> Lower(chars[i])]

\* pattern LIKE text: "%" matches any run of characters, "_" any one
\* character, every other character itself.
RECURSIVE Like(_, _)
Like(pat, text) ==
  IF pat = <<>> THEN text = <<>>
  ELSE IF Head(pat) = "%"
    THEN Like(Tail(pat), text) \/ (text # <<>> /\ Like(pat, Tail(text)))
  ELSE /\ text # <<>>
       /\ (Head(pat) = "_" \/ Head(pat) = Head(text))
       /\ Like(Tail(pat), Tail(text))

\* column.ilike(pattern): lower(column) LIKE lower(pattern).
ILike(text, pat) == Like(LowerAll(pat), LowerAll(text))

\* mcp_server.py lines 184-187: the filter of search_posts.
SearchPattern(query) == <<"%">> \o query \o <<"%">>
SearchFilter(post, query) ==
  \/ ILike(post.title, SearchPattern(query))
  \/ ILike(post.content, SearchPattern(query))

\* ------------------------------------------------------- the wrapper: entry

\* connection.py line 48: 'session' not in kwargs.  A session passed
\* positionally is in args, not in kwargs.
SessionNotInKwargs(mode) == mode \in {"absent", "positional"}

\* What the function finds in its session parameter: the wrapper's Session,
\* the caller's Session, or None (session=None passed by keyword).
KwargSession(p, mode) ==
  CASE mode \in {"absent", "positional"} -> p
    [] mode = "keyword" -> CallerSess
    [] OTHER -> NoSess

\* connection.py lines 44-53: wrapper(*args, **kwargs) up to the call of func.
Call(p, c) ==
  /\ pc[p] = "idle"
  /\ c.mode \in {"keyword", "positional"} => sess[CallerSess].state = "open"
  /\ ncalls' = ncalls + 1
  /\ call' = [call EXCEPT ![p] = c]
  /\ local' = [local EXCEPT ![p] =
       [session |-> IF SessionNotInKwargs(c.mode) THEN p ELSE NoSess,
        ksess |-> KwargSession(p, c.mode),
        result |-> PyNone, exc |-> "", at |-> ""]]
  /\ sess' = IF SessionNotInKwargs(c.mode)
             THEN [sess EXCEPT ![p] = SessionLocal]
             ELSE sess
  /\ pc' = [pc EXCEPT ![p] = "func"]
  /\ mine' = [mine EXCEPT ![p] = NoRows]
  /\ ret' = [ret EXCEPT ![p] = PyNone]
  /\ UNCHANGED <<users, posts, writer, seenIds, seedCounts>>

\* The function body can run: it was not handed the session twice, and its
\* session parameter is a Session.
Bound(p) == call[p].mode \in {"absent", "keyword"}

\* func(*args, **kwargs) with the session in args and in kwargs raises
\* TypeError (multiple values for 'session'); a body that uses session=None
\* raises AttributeError.
FuncEntryFault(p) ==
  /\ pc[p] = "func"
  /\ \/ call[p].mode = "positional"
     \/ call[p].mode = "keywordNone" /\ (call[p].fn = "generic" => call[p].writes)
  /\ local' = [local EXCEPT
       ![p].exc = IF call[p].mode = "positional" THEN "TypeError"
                  ELSE "AttributeError",
       ![p].at = "func"]
  /\ pc' = [pc EXCEPT ![p] = "except"]
  /\ UNCHANGED <<users, posts, writer, sess, call, ret, mine, ncalls, seenIds,
                 seedCounts>>

\* Where in the try block the wrapper is: in func (line 53), in commit
\* (line 57) or in the serialization (lines 60-67).
Stage(p) ==
  IF pc[p] = "commit" THEN "commit"
  ELSE IF pc[p] = "serialize" THEN "serialize"
  ELSE "func"

\* An exception is raised in the try block: control goes to the wrapper's
\* except clause.
Raise(p, e) ==
  /\ local' = [local EXCEPT ![p].exc = e, ![p].at = Stage(p)]
  /\ pc' = [pc EXCEPT ![p] = "except"]

\* The function returns v: control goes on at connection.py line 56.
ReturnFromFunc(p, v) ==
  /\ local' = [local EXCEPT ![p].result = v]
  /\ pc' = [pc EXCEPT ![p] = "commit"]

\* ------------------------------------------------ session.query / flush

\* The first statement of a Session begins its transaction (autobegin).
Begun(s) == [s EXCEPT !.inTx = TRUE]

\* A flush that fails rolls the Session's transaction back before the
\* exception reaches the caller of flush().
FlushFails(k) ==
  /\ sess' = [sess EXCEPT ![k] = Ended(@)]
  /\ writer' = IF writer = k THEN NoSess ELSE writer

\* The outcome of INSERTing one user row in session k:
\* "locked", "integrity" or "ok".
InsertUserOutcome(k, row) ==
  IF LockedOut(k) THEN "locked"
  ELSE IF ViolatesUnique(row, VisibleUsers(k)) THEN "integrity"
  ELSE "ok"

ExcOf(outcome) ==
  IF outcome = "locked" THEN "OperationalError" ELSE "IntegrityError"

\* ------------------------------------------------------------ create_user

UserPayload(u) ==
  [NoPayload EXCEPT !.kind = "user", !.id = u.id, !.key = u.username]

\* mcp_server.py lines 126-128: is there a user with this username or email?
ExistingUser(k, username, email) ==
  \E u \in VisibleUsers(k) : u.username = username \/ u.email = email

\* mcp_server.py lines 125-133: the check, and the error it returns.
CreateUserCheck(p) ==
  /\ pc[p] = "func" /\ call[p].fn = "create_user" /\ Bound(p)
  /\ LET k == local[p].ksess IN
     /\ sess' = [sess EXCEPT ![k] = Begun(@)]
     /\ IF ExistingUser(k, call[p].username, call[p].email)
        THEN ReturnFromFunc(p, DumpsError("Username or email already exists"))
        ELSE /\ pc' = [pc EXCEPT ![p] = "cu_insert"]
             /\ UNCHANGED local
  /\ UNCHANGED <<users, posts, writer, call, ret, mine, ncalls, seenIds,
                 seedCounts>>

\* mcp_server.py lines 135-148: add, flush, and the success envelope.
CreateUserInsert(p) ==
  /\ pc[p] = "cu_insert"
  /\ LET k == local[p].ksess
         row == [id |-> NextId(VisibleUsers(k)),
                 username |-> call[p].username, email |-> call[p].email]
         outcome == InsertUserOutcome(k, row)
     IN IF outcome = "ok"
        THEN /\ sess' = [sess EXCEPT ![k].fUsers = @ \cup {row}]
             /\ writer' = k
             /\ mine' = [mine EXCEPT ![p].users = @ \cup {row}]
             /\ ReturnFromFunc(p, DumpsSuccess(UserPayload(row)))
        ELSE /\ FlushFails(k)
             /\ Raise(p, ExcOf(outcome))
             /\ UNCHANGED mine
  /\ UNCHANGED <<users, posts, call, ret, ncalls, seenIds, seedCounts>>

\* ------------------------------------------------------------ create_post

PostPayload(row) ==
  [NoPayload EXCEPT !.kind = "post", !.id = row.id, !.data = row.title,
                    !.author = row.user_id]

\* A variant that skips the look-up.
AnyUserId(k, user_id) == TRUE

\* mcp_server.py line 155: the user with this id, if any.
UserExists(k, user_id) == \E u \in VisibleUsers(k) : u.id = user_id

\* mcp_server.py lines 154-159: the check, and the error it returns.
CreatePostCheck(p) ==
  /\ pc[p] = "func" /\ call[p].fn = "create_post" /\ Bound(p)
  /\ LET k == local[p].ksess IN
     /\ sess' = [sess EXCEPT ![k] = Begun(@)]
     /\ IF ~UserExists(k, call[p].user_id)
        THEN ReturnFromFunc(p, DumpsError("User not found"))
        ELSE /\ pc' = [pc EXCEPT ![p] = "cp_insert"]
             /\ UNCHANGED local
  /\ UNCHANGED <<users, posts, writer, call, ret, mine, ncalls, seenIds,
                 seedCounts>>

\* mcp_server.py lines 161-178: add, flush, and the success envelope.
CreatePostInsert(p) ==
  /\ pc[p] = "cp_insert"
  /\ LET k == local[p].ksess
         row == [id |-> NextId(VisiblePosts(k)), title |-> call[p].title,
                 content |-> call[p].content, user_id |-> call[p].user_id]
     IN IF LockedOut(k)
        THEN /\ FlushFails(k)
             /\ Raise(p, "OperationalError")
             /\ UNCHANGED mine
        ELSE /\ sess' = [sess EXCEPT ![k].fPosts = @ \cup {row}]
             /\ writer' = k
             /\ mine' = [mine EXCEPT ![p].posts = @ \cup {row}]
             /\ ReturnFromFunc(p, DumpsSuccess(PostPayload(row)))
  /\ UNCHANGED <<users, posts, call, ret, ncalls, seenIds, seedCounts>>

\* ----------------------------------------------------------- search_posts

SearchPayload(query, hits) ==
  [NoPayload EXCEPT !.kind = "search", !.data = query,
                    !.count = Cardinality(hits), !.hits = {h.id : h \in hits}]

\* mcp_server.py lines 182-208.  post.author is None for a post whose
\* user_id matches no user, and post.author.id then raises AttributeError.
SearchPosts(p) ==
  /\ pc[p] = "func" /\ call[p].fn = "search_posts" /\ Bound(p)
  /\ LET k == local[p].ksess
         hits == {post \in VisiblePosts(k) : SearchFilter(post, call[p].query)}
     IN /\ sess' = [sess EXCEPT ![k] = Begun(@)]
        /\ IF \A h \in hits : UserExists(k, h.user_id)
           THEN ReturnFromFunc(p, DumpsSuccess(SearchPayload(call[p].query, hits)))
           ELSE Raise(p, "AttributeError")
  /\ UNCHANGED <<users, posts, writer, call, ret, mine, ncalls, seenIds,
                 seedCounts>>

\* ------------------------------------------------------------- the seeder

\* seed.py lines 16-26: the users are INSERTed in the order they were added.
\* [ok, rows]: whether every INSERT passed the unique constraints, and the
\* table as the transaction then sees it.
RECURSIVE SeedUserRows(_, _, _)
SeedUserRows(names, emails, rows) ==
  IF names = <<>> THEN [ok |-> TRUE, rows |-> rows]
  ELSE LET row == [id |-> NextId(rows), username |-> Head(names),
                   email |-> Head(emails)]
       IN IF ViolatesUnique(row, rows) THEN [ok |-> FALSE, rows |-> rows]
          ELSE SeedUserRows(Tail(names), Tail(emails), rows \cup {row})

\* seed.py lines 28-35: for each user, in order, counts[i] Post objects.
RECURSIVE SeedPostObjects(_, _, _)
SeedPostObjects(i, firstId, counts) ==
  IF i > SeedUsers THEN <<>>
  ELSE [j \in 1..counts[i] |->
          [title |-> FakeTitle, content |-> FakeContent,
           user_id |-> firstId + i - 1]]
       \o SeedPostObjects(i + 1, firstId, counts)

\* seed.py lines 11-14: nothing to do when there are users already.
SeedCheck(p) ==
  /\ pc[p] = "func" /\ call[p].fn = "seed" /\ Bound(p)
  /\ LET k == local[p].ksess IN
     /\ sess' = [sess EXCEPT ![k] = Begun(@)]
     /\ IF Cardinality(VisibleUsers(k)) > 0
        THEN ReturnFromFunc(p, PyBool(FALSE))
        ELSE /\ pc' = [pc EXCEPT ![p] = "seed_insert"]
             /\ UNCHANGED local
  /\ UNCHANGED <<users, posts, writer, call, ret, mine, ncalls, seenIds,
                 seedCounts>>

\* seed.py lines 16-37: random users, flush, random numbers of posts.
SeedInsert(p) ==
  /\ pc[p] = "seed_insert"
  /\ \E names \in [1..SeedUsers -> Names], emails \in [1..SeedUsers -> Emails],
        counts \in [1..SeedUsers -> 1..MaxSeedPosts] :
       LET k == local[p].ksess
           seen == VisibleUsers(k)
           done == SeedUserRows(names, emails, seen)
       IN IF LockedOut(k) \/ ~done.ok
          THEN /\ FlushFails(k)
               /\ Raise(p, IF LockedOut(k) THEN "OperationalError"
                           ELSE "IntegrityError")
               /\ UNCHANGED mine
          ELSE /\ sess' = [sess EXCEPT
                    ![k].fUsers = done.rows \ users,
                    ![k].new = @ \o SeedPostObjects(1, NextId(seen), counts)]
               /\ writer' = k
               /\ mine' = [mine EXCEPT ![p].users = @ \cup (done.rows \ seen)]
               /\ ReturnFromFunc(p, PyBool(TRUE))
  /\ UNCHANGED <<users, posts, call, ret, ncalls, seenIds, seedCounts>>

\* ------------------------------------------- any other wrapped function

\* A wrapped function that may INSERT a user and flush (call[p].writes),
\* and then raises (call[p].raises) or returns call[p].value.
GenericBody(p) ==
  /\ pc[p] = "func" /\ call[p].fn = "generic"
  /\ Bound(p) \/ (call[p].mode = "keywordNone" /\ ~call[p].writes)
  /\ IF call[p].writes
     THEN LET k == local[p].ksess
              row == [id |-> NextId(VisibleUsers(k)),
                      username |-> call[p].username, email |-> call[p].email]
              outcome == InsertUserOutcome(k, row)
          IN IF outcome = "ok"
             THEN /\ sess' = [sess EXCEPT ![k] =
                       [Begun(@) EXCEPT !.fUsers = @ \cup {row}]]
                  /\ writer' = k
                  /\ mine' = [mine EXCEPT ![p].users = @ \cup {row}]
                  /\ pc' = [pc EXCEPT ![p] = "gen_end"]
                  /\ UNCHANGED local
             ELSE /\ FlushFails(k)
                  /\ Raise(p, ExcOf(outcome))
                  /\ UNCHANGED mine
     ELSE /\ pc' = [pc EXCEPT ![p] = "gen_end"]
          /\ UNCHANGED <<sess, writer, mine, local>>
  /\ UNCHANGED <<users, posts, call, ret, ncalls, seenIds, seedCounts>>

GenericEnd(p) ==
  /\ pc[p] = "gen_end"
  /\ IF call[p].raises
     THEN Raise(p, "RuntimeError")
     ELSE ReturnFromFunc(p, call[p].value)
  /\ UNCHANGED <<users, posts, writer, sess, call, ret, mine, ncalls, seenIds,
                 seedCounts>>

\* -------------------------------------- the wrapper: after func returned

\* session.commit(): what is flushed is made durable, and session.new is
\* flushed first.  [users, posts]: the tables afterwards.
CommittedTables(s) ==
  [users |-> users \cup s.fUsers,
   posts |-> FlushedPosts(s.new, posts \cup s.fPosts)]

HasWrites(s) == s.fUsers # {} \/ s.fPosts # {} \/ s.new # <<>>

\* connection.py lines 55-57: commit, if the wrapper created the session.
\* A commit that has rows to write may fail (a storage fault).
WrapperCommit(p) ==
  /\ pc[p] = "commit"
  /\ LET k == local[p].session IN
     IF k = NoSess
     THEN /\ pc' = [pc EXCEPT ![p] = "serialize"]
          /\ UNCHANGED <<users, posts, writer, sess, local, mine>>
     ELSE \E ok \in BOOLEAN :
            IF ok \/ ~HasWrites(sess[k])
            THEN LET after == CommittedTables(sess[k]) IN
                 /\ users' = after.users
                 /\ posts' = after.posts
                 /\ mine' = [mine EXCEPT ![p].posts =
                      @ \cup (after.posts \ (posts \cup sess[k].fPosts))]
                 /\ sess' = [sess EXCEPT ![k] = Ended(@)]
                 /\ writer' = IF writer = k THEN NoSess ELSE writer
                 /\ pc' = [pc EXCEPT ![p] = "serialize"]
                 /\ UNCHANGED local
            ELSE /\ Raise(p, "OperationalError")
                 /\ UNCHANGED <<users, posts, writer, sess, mine>>
  /\ UNCHANGED <<call, ret, ncalls, seenIds, seedCounts>>

\* connection.py lines 59-67: the value the try block returns for result;
\* ok is FALSE when json.dumps raises TypeError.
Serialized(result) ==
  IF LooksLikeJson(result) THEN [ok |-> TRUE, value |-> result]
  ELSE IF result.t = "None"
    THEN [ok |-> TRUE, value |-> DumpsSuccess(NoPayload)]
  ELSE IF JsonSerializable(result)
    THEN [ok |-> TRUE,
          value |-> DumpsSuccess([NoPayload EXCEPT !.kind = "data",
                                                   !.data = JsonOf(result)])]
  ELSE [ok |-> FALSE, value |-> PyNone]

WrapperSerialize(p) ==
  /\ pc[p] = "serialize"
  /\ LET out == Serialized(local[p].result) IN
     IF out.ok
     THEN /\ ret' = [ret EXCEPT ![p] = out.value]
          /\ pc' = [pc EXCEPT ![p] = "finally"]
          /\ UNCHANGED local
     ELSE /\ Raise(p, "TypeError")
          /\ UNCHANGED ret
  /\ UNCHANGED <<users, posts, writer, sess, call, mine, ncalls, seenIds,
                 seedCounts>>

\* connection.py line 71: the envelope of a caught exception.
ErrorEnvelope(e) == DumpsError(e)

\* A variant whose except clause commits what was flushed instead of
\* rolling it back.
WrapperExceptCommits(p) ==
  /\ pc[p] = "except"
  /\ LET k == local[p].session IN
     IF k = NoSess
     THEN UNCHANGED <<sess, writer, users>>
     ELSE /\ users' = users \cup sess[k].fUsers
          /\ sess' = [sess EXCEPT ![k] = Ended(@)]
          /\ writer' = IF writer = k THEN NoSess ELSE writer
  /\ ret' = [ret EXCEPT ![p] = ErrorEnvelope(local[p].exc)]
  /\ pc' = [pc EXCEPT ![p] = "finally"]
  /\ UNCHANGED <<posts, call, local, mine, ncalls, seenIds, seedCounts>>

\* connection.py lines 68-71: rollback, if the wrapper created the session,
\* and the error envelope.
WrapperExcept(p) ==
  /\ pc[p] = "except"
  /\ LET k == local[p].session IN
     IF k = NoSess
     THEN UNCHANGED <<sess, writer>>
     ELSE /\ sess' = [sess EXCEPT ![k] = Ended(@)]
          /\ writer' = IF writer = k THEN NoSess ELSE writer
  /\ ret' = [ret EXCEPT ![p] = ErrorEnvelope(local[p].exc)]
  /\ pc' = [pc EXCEPT ![p] = "finally"]
  /\ UNCHANGED <<users, posts, call, local, mine, ncalls, seenIds, seedCounts>>

\* connection.py lines 72-75: close, if the wrapper created the session.
WrapperFinally(p) ==
  /\ pc[p] = "finally"
  /\ LET k == local[p].session IN
     IF k = NoSess
     THEN UNCHANGED <<sess, writer>>
     ELSE /\ sess' = [sess EXCEPT ![k] = Closed(@)]
          /\ writer' = IF writer = k THEN NoSess ELSE writer
  /\ pc' = [pc EXCEPT ![p] = "done"]
  /\ UNCHANGED <<users, posts, call, local, ret, mine, ncalls, seenIds,
                 seedCounts>>

\* An envelope, read back from the returned text (json.loads): "success" or
\* "error" for a JSON object with that key, "none" for any other text.
EnvelopeKind(v) ==
  IF v.t # "str" THEN "none"
  ELSE IF Strip(v.s) = <<"{", "s", "}">> THEN "success"
  ELSE IF Strip(v.s) = <<"{", "e", "}">> THEN "error"
  ELSE "none"

\* The call has returned ret[p] to its caller, who takes note of it.
Return(p) ==
  /\ pc[p] = "done"
  /\ seenIds' =
       IF EnvelopeKind(ret[p]) = "success" /\ ret[p].payload.kind = "user"
         THEN [seenIds EXCEPT !.users = @ \cup {ret[p].payload.id}]
       ELSE IF EnvelopeKind(ret[p]) = "success" /\ ret[p].payload.kind = "post"
         THEN [seenIds EXCEPT !.posts = @ \cup {ret[p].payload.id}]
       ELSE seenIds
  /\ pc' = [pc EXCEPT ![p] = "idle"]
  /\ call' = [call EXCEPT ![p] = NoCall]
  /\ local' = [local EXCEPT ![p] = NoLocal]
  /\ ret' = [ret EXCEPT ![p] = PyNone]
  /\ mine' = [mine EXCEPT ![p] = NoRows]
  /\ UNCHANGED <<users, posts, writer, sess, ncalls>>

\* -------------------------------------------- a caller with its own session

\* The caller creates the session it will pass in.
CallerOpen ==
  /\ sess[CallerSess].state = "none"
  /\ sess' = [sess EXCEPT ![CallerSess] = SessionLocal]
  /\ UNCHANGED <<users, posts, writer, pc, call, local, ret, mine, ncalls,
                 seenIds, seedCounts>>

\* Between calls the caller commits or rolls back its session.
CallerCommit ==
  /\ \A p \in Procs : pc[p] = "idle"
  /\ sess[CallerSess].state = "open" /\ sess[CallerSess].inTx
  /\ LET after == CommittedTables(sess[CallerSess]) IN
     /\ users' = after.users
     /\ posts' = after.posts
  /\ sess' = [sess EXCEPT ![CallerSess] = Ended(@)]
  /\ writer' = IF writer = CallerSess THEN NoSess ELSE writer
  /\ UNCHANGED <<pc, call, local, ret, mine, ncalls, seenIds, seedCounts>>

CallerRollback ==
  /\ \A p \in Procs : pc[p] = "idle"
  /\ sess[CallerSess].state = "open" /\ sess[CallerSess].inTx
  /\ sess' = [sess EXCEPT ![CallerSess] = Ended(@)]
  /\ writer' = IF writer = CallerSess THEN NoSess ELSE writer
  /\ UNCHANGED <<users, posts, pc, call, local, ret, mine, ncalls, seenIds,
                 seedCounts>>

\* ---------------------------------------------------------- specifications

Init ==
  /\ users = {}
  /\ posts = {}
  /\ writer = NoSess
  /\ sess = [k \in SessIds |-> NoSession]
  /\ pc = [p \in Procs |-> "idle"]
  /\ call = [p \in Procs |-> NoCall]
  /\ local = [p \in Procs |-> NoLocal]
  /\ ret = [p \in Procs |-> PyNone]
  /\ mine = [p \in Procs |-> NoRows]
  /\ ncalls = 0
  /\ seenIds = [users |-> {}, posts |-> {}]
  /\ seedCounts = <<>>

\* The calls the server makes: seed_database() at start-up and the tools,
\* each without a session argument.
SeedCall == [NoCall EXCEPT !.fn = "seed"]
ToolCalls ==
  {[NoCall EXCEPT !.fn = "create_user", !.username = n, !.email = e] :
     n \in Names, e \in Emails}
  \cup {[NoCall EXCEPT !.fn = "create_post", !.title = t, !.content = c,
                       !.user_id = u] :
          t \in Titles, c \in Contents, u \in UserIdArgs}
  \cup {[NoCall EXCEPT !.fn = "search_posts", !.query = q] : q \in Queries}
  \cup {SeedCall}

ToolCall(p) ==
  /\ ncalls < MaxCalls
  /\ \E c \in ToolCalls : Call(p, c)

ToolReturn(p) == Return(p) /\ UNCHANGED seedCounts

Next ==
  \E p \in Procs :
    \/ ToolCall(p)
    \/ CreateUserCheck(p)
    \/ CreateUserInsert(p)
    \/ CreatePostCheck(p)
    \/ CreatePostInsert(p)
    \/ SearchPosts(p)
    \/ SeedCheck(p)
    \/ SeedInsert(p)
    \/ WrapperCommit(p)
    \/ WrapperSerialize(p)
    \/ WrapperExcept(p)
    \/ WrapperFinally(p)
    \/ ToolReturn(p)

\* The server: concurrent tool calls and seeding.
Spec == Init /\ [][Next]_vars

\* ------------------------------------------------ the wrapper on its own

\* The results a wrapped function may return: None, a bool, an object that
\* json.dumps rejects, and strings: plain text, the empty string, envelopes
\* (also with blanks around them), a JSON list, a JSON object that is no
\* envelope, and text that only starts like JSON.
GenericValues ==
  {PyNone, PyBool(FALSE), PyObject,
   PyStr(<<>>), PyStr(<<"x">>),
   PyStr(<<"{", "s", "}">>), PyStr(<<" ", "{", "e", "}", " ">>),
   PyStr(<<"[", "x", "]">>), PyStr(<<"{", "x", "}">>), PyStr(<<" ", "{", "x">>)}

SessionModes == {"absent", "keyword", "keywordNone", "positional"}

GenericCalls ==
  {[NoCall EXCEPT !.fn = "generic", !.mode = m, !.username = "ann",
                  !.email = e, !.writes = w, !.raises = r, !.value = v] :
     m \in SessionModes, e \in Emails, w \in BOOLEAN, r \in BOOLEAN,
     v \in GenericValues}
SeedCalls == {[SeedCall EXCEPT !.mode = m] : m \in SessionModes}

\* One caller, who may own a session and pass it in.
WrappedCall ==
  /\ ncalls < MaxCalls
  /\ \E c \in GenericCalls \cup SeedCalls : Call(1, c)

NextW ==
  \/ WrappedCall
  \/ FuncEntryFault(1)
  \/ GenericBody(1)
  \/ GenericEnd(1)
  \/ SeedCheck(1)
  \/ SeedInsert(1)
  \/ WrapperCommit(1)
  \/ WrapperSerialize(1)
  \/ WrapperExcept(1)
  \/ WrapperFinally(1)
  \/ ToolReturn(1)
  \/ CallerOpen
  \/ CallerCommit
  \/ CallerRollback

\* Any wrapped function under db_operation, however the session is supplied.
SpecW == Init /\ [][NextW]_vars

\* --------------------------------------------------- seed_database() twice

\* The stores seed_database() may find: empty, or with users and posts.
SeedStartStores ==
  {[users |-> {}, posts |-> {}],
   [users |-> {[id |-> 1, username |-> "ann", email |-> "a@x"]},
    posts |-> {}],
   [users |-> {[id |-> 1, username |-> "bob", email |-> "b@x"]},
    posts |-> {[id |-> 1, title |-> FakeTitle, content |-> FakeContent,
                user_id |-> 1]}]}

InitSeed ==
  /\ \E st \in SeedStartStores : users = st.users /\ posts = st.posts
  /\ writer = NoSess
  /\ sess = [k \in SessIds |-> NoSession]
  /\ pc = [p \in Procs |-> "idle"]
  /\ call = [p \in Procs |-> NoCall]
  /\ local = [p \in Procs |-> NoLocal]
  /\ ret = [p \in Procs |-> PyNone]
  /\ mine = [p \in Procs |-> NoRows]
  /\ ncalls = 0
  /\ seenIds = [users |-> {}, posts |-> {}]
  /\ seedCounts = <<>>

\* seed.py lines 39-47: seed_database() calls the wrapped seeder without a
\* session; here it is invoked twice in succession.
SeedDatabase ==
  /\ Len(seedCounts) < 2
  /\ Call(1, SeedCall)

\* The caller counts the users after each invocation.
SeedReturn ==
  /\ Return(1)
  /\ seedCounts' = Append(seedCounts, Cardinality(users))

NextSeed ==
  \/ SeedDatabase
  \/ SeedCheck(1)
  \/ SeedInsert(1)
  \/ WrapperCommit(1)
  \/ WrapperSerialize(1)
  \/ WrapperExcept(1)
  \/ WrapperFinally(1)
  \/ SeedReturn

SpecSeed == InitSeed /\ [][NextSeed]_vars

\* ------------------------------------------------------------ properties

Returned(p) == pc[p] = "done"
IsError(v) == EnvelopeKind(v) = "error"
IsSuccess(v) == EnvelopeKind(v) = "success"

\* The wrapper of call p opened the session itself.
Opened(p) == local[p].session # NoSess

\* Rows that are in the store: committed, or flushed in a transaction that
\* is still open and can yet be committed.
StoredUsers == users \cup UNION {sess[k].fUsers : k \in SessIds}
StoredPosts == posts \cup UNION {sess[k].fPosts : k \in SessIds}

\* Nothing the function of call p flushed is in the store.
NothingWritten(p) ==
  /\ mine[p].users \cap StoredUsers = {}
  /\ mine[p].posts \cap StoredPosts = {}

\* The exception of call p was raised by func (line 53) or by commit
\* (line 57), that is before the transaction was committed.
FaultBeforeCommitted(p) == local[p].at \in {"func", "commit"}

\* C1 as stated: whenever the wrapped function raised, the call returns an
\* error envelope and none of the function's writes is in the store, however
\* the session was supplied.
C1_RollbackOnAnyFault ==
  \A p \in Procs :
    (Returned(p) /\ local[p].at = "func")
      => (IsError(ret[p]) /\ NothingWritten(p))

\* C1 amended: when the wrapper opened the session (no session keyword was
\* passed) and the wrapped function or the commit raised, the call returns
\* the error envelope of that exception and none of the function's writes is
\* in the store; every call whose function raised returns an error envelope.
C1_RollbackWhenOpened ==
  \A p \in Procs :
    /\ (Returned(p) /\ local[p].at = "func") => IsError(ret[p])
    /\ (Returned(p) /\ Opened(p) /\ FaultBeforeCommitted(p))
         => /\ IsError(ret[p])
            /\ ret[p].payload.msg = local[p].exc
            /\ NothingWritten(p)
            /\ mine[p].users \cap users = {}

\* A function that had flushed a row raised, under a wrapper-opened session.
C1_Witness ==
  \E p \in Procs :
    /\ Returned(p) /\ Opened(p) /\ local[p].at = "func"
    /\ mine[p].users # {}

C3_AlwaysEnvelope ==
  \A p \in Procs : Returned(p) => (IsSuccess(ret[p]) \/ IsError(ret[p]))

\* The first character of a text that is not a blank ("" when there is none).
RECURSIVE FirstNonBlank(_)
FirstNonBlank(chars) ==
  IF chars = <<>> THEN ""
  ELSE IF Head(chars) = " " THEN FirstNonBlank(Tail(chars))
  ELSE Head(chars)

\* C3 amended: a call returns its function's result unchanged exactly when
\* that result is a string whose first non-blank character is '{' or '[',
\* envelope or not; otherwise None becomes {success: true}, any other JSON
\* serializable result becomes {success: true, data: <result>}, and a raised
\* exception (also json.dumps rejecting the result) becomes {error: <message>}.
C3_EnvelopeOrPassThrough ==
  \A p \in Procs :
    Returned(p) =>
      LET r == local[p].result IN
      IF local[p].exc # ""
        THEN /\ IsError(ret[p])
             /\ ret[p].payload.msg = local[p].exc
      ELSE IF r.t = "str" /\ FirstNonBlank(r.s) \in {"{", "["}
        THEN ret[p] = r
      ELSE IF r.t = "None"
        THEN IsSuccess(ret[p]) /\ ret[p].payload = NoPayload
      ELSE /\ r.t \in {"bool", "str"}
           /\ IsSuccess(ret[p])
           /\ ret[p].payload.kind = "data"
           /\ ret[p].payload.data = JsonOf(r)

\* A JSON list was returned unchanged.
C3_Witness ==
  \E p \in Procs :
    /\ Returned(p) /\ local[p].exc = ""
    /\ local[p].result = PyStr(<<"[", "x", "]">>)
    /\ ret[p] = local[p].result

\* C4 as stated: after the second of two seed_database() invocations in
\* succession there are as many users as after the first.
C4_SeedIdempotent ==
  Len(seedCounts) = 2 => seedCounts[2] = seedCounts[1]

\* A user other than the one call p reports as created has this username or
\* this email.
Collides(p, rows) ==
  \E u \in rows :
    /\ u.username = call[p].username \/ u.email = call[p].email
    /\ ~(IsSuccess(ret[p]) /\ ret[p].payload.id = u.id)

C5_ErrorReturned ==
  \A p \in Procs :
    (Returned(p) /\ call[p].fn = "create_user" /\ Collides(p, users))
      => IsError(ret[p])

C5_Unique ==
  \A u, v \in users :
    (u.username = v.username \/ u.email = v.email) => u = v

\* No step of a create_user call whose username or email a stored user has
\* changes the users.
C5_NoInsert ==
  \A p \in Procs :
    (/\ call[p].fn = "create_user"
     /\ \E u \in users :
          u.username = call[p].username \/ u.email = call[p].email
     /\ pc'[p] # pc[p])
      => users' = users

\* C5: create_user with the username or the email of a stored user returns
\* an error envelope and inserts nothing, also when calls with colliding
\* values are interleaved: usernames and emails stay unique.
C5_DuplicateRejected ==
  [](C5_ErrorReturned /\ C5_Unique) /\ [][C5_NoInsert]_vars

\* A create_user call with a stored user's name has returned its error.
C5_Witness ==
  \E p \in Procs :
    /\ Returned(p) /\ call[p].fn = "create_user"
    /\ \E u \in users : u.username = call[p].username
    /\ IsError(ret[p])

\* C6: create_post with a user_id no user has returns an error envelope and
\* inserts nothing; every stored post's user_id is the id of a stored user.
C6_PostsHaveAuthors ==
  /\ \A post \in posts : \E u \in users : u.id = post.user_id
  /\ \A p \in Procs :
       (/\ Returned(p) /\ call[p].fn = "create_post"
        /\ ~\E u \in users : u.id = call[p].user_id)
         => (IsError(ret[p]) /\ mine[p].posts = {})

\* A create_post call for a missing user has returned, with posts stored.
C6_Witness ==
  \E p \in Procs :
    /\ Returned(p) /\ call[p].fn = "create_post"
    /\ ~\E u \in users : u.id = call[p].user_id
    /\ IsError(ret[p])

\* The record a success envelope of create_user / create_post reports.
Created(p, kind) == IsSuccess(ret[p]) /\ ret[p].payload.kind = kind

ContainsIgnoringCase(text, query) ==
  \E i \in 0..(Len(text) - Len(query)) :
    \A j \in 1..Len(query) : Lower(text[i + j]) = Lower(query[j])

\* What C8 says of the step in which search_posts runs its query.
C8_SearchStep ==
  \A p \in Procs :
    (/\ pc[p] = "func" /\ call[p].fn = "search_posts"
     /\ pc'[p] # pc[p])
      => /\ pc'[p] = "commit"
         /\ IsSuccess(local'[p].result)
         /\ local'[p].result.payload.hits =
              {x.id : x \in
                 {y \in posts :
                    \/ ContainsIgnoringCase(y.title, call[p].query)
                    \/ ContainsIgnoringCase(y.content, call[p].query)}}
         /\ local'[p].result.payload.count =
              Cardinality(local'[p].result.payload.hits)

\* C8 as stated: search_posts returns a success envelope whose posts are
\* exactly the stored posts whose title or content contains the query,
\* letter case ignored, with result_count their number.
C8_SearchIsSubstringMatch == [][C8_SearchStep]_vars

\* C9 as stated: the wrapper opens a session exactly when the caller
\* supplied none, and a call that was given a session leaves every commit,
\* rollback and close to its caller.
C9_OpensOnlyWithoutSession ==
  \A p \in Procs :
    pc[p] # "idle" => (Opened(p) <=> call[p].mode = "absent")

\* C10 as stated, for the error envelopes the wrapper makes of a fault (in
\* func, in commit, or while it serializes the result): a call without a
\* session that returns one has left the committed store as it was, nothing
\* its function wrote is committed.
C10_FaultMeansNothingCommitted ==
  \A p \in Procs :
    (/\ Returned(p) /\ call[p].mode = "absent"
     /\ local[p].exc # "" /\ IsError(ret[p]))
      => (mine[p].users \cap users = {} /\ mine[p].posts \cap posts = {})

====
